---- MODULE Spec2Model ----
(***************************************************************************)
(* Model of the S3 backup operations of neo4j-admin/backup/aws:            *)
(* CheckBucketAccess, UploadFile, UploadLargeObject,                       *)
(* GenerateEnvVariablesFromCredentials and generateKeyName.                *)
(*                                                                         *)
(* A Go string is a sequence of one-character strings, so that slicing     *)
(* and strings.Index are computed and not assumed.  One behaviour is one   *)
(* call of one exported method on a freshly constructed client; the S3     *)
(* service, the file system, the credential provider and the environment   *)
(* store answer nondeterministically.  Every request the code makes is     *)
(* appended to the history variable events.                                *)
(***************************************************************************)
EXTENDS Integers, Sequences, FiniteSets

\* ---------------------------------------------------------------- bounds
MaxLen == 5          \* longest bucket address
MaxFiles == 3        \* longest fileNames slice
MaxObjects == 1      \* most objects a listing page returns

Alphabet == {"d", "/"}
FileNameSet == {<<"x">>, <<"y">>}
CredValues == {"k1", "k2"}
Regions == {"r1"}

RECURSIVE StringsOfLen(_)
StringsOfLen(n) ==
    IF n = 0 THEN {<<>>}
    ELSE {Append(s, c) : s \in StringsOfLen(n - 1), c \in Alphabet}

BucketAddresses == UNION {StringsOfLen(n) : n \in 1..MaxLen}

RECURSIVE FileLists(_)
FileLists(n) ==
    IF n = 0 THEN {<<>>}
    ELSE {Append(s, f) : s \in FileLists(n - 1), f \in FileNameSet}

FileNameLists == UNION {FileLists(n) : n \in 0..MaxFiles}

\* -------------------------------------------------------------- constants
partGiBs == 1
PartSize == partGiBs * 1024 * 1024 * 1024
Threshold == 1073741824
Sizes == {Threshold - 1, Threshold}
location == <<"b">>

EnvKeys == {"AWS_ACCESS_KEY_ID", "AWS_SECRET_ACCESS_KEY", "AWS_REGION"}
EnvInit == {[k \in EnvKeys |-> ""], [k \in EnvKeys |-> "old"]}

\* pc          position: "idle", "loop" (inside UploadFile), "returned"
\* op          the method called: "check", "upload", "export"
\* bucketName, fileNames   the arguments of the call
\* parentBucketName, idx   locals of UploadFile (idx is 1-based)
\* events      the file-system and S3 calls UploadFile made, in order
\* openFiles   positions whose os.File is open and not closed
\* result      "ok" for a nil error, "err" otherwise
\* listReqs, listed   the ListObjectsV2 inputs and the last answer
\* env, env0   the process environment, now and at the call
\* creds, cfg, retrieved, envCalls   credentials, config, Retrieve's
\*             outcome and the os.Setenv calls made
VARIABLES pc, op, bucketName, fileNames, parentBucketName, idx,
          events, openFiles, result, listReqs, listed, env, env0, creds, cfg,
          retrieved, envCalls

vars == <<pc, op, bucketName, fileNames, parentBucketName, idx,
          events, openFiles, result, listReqs, listed, env, env0, creds, cfg,
          retrieved, envCalls>>

\* ------------------------------------------------------- string functions
\* strings.Contains(s, "/")
Contains(s) == \E k \in 1..Len(s) : s[k] = "/"

\* strings.LastIndex in the place of strings.Index
LastIndex(s) ==
    IF Contains(s)
    THEN (CHOOSE k \in 1..Len(s) :
             s[k] = "/" /\ \A j \in (k + 1)..Len(s) : s[j] # "/") - 1
    ELSE -1

\* strings.Index(s, "/"): the 0-based position of the first "/", or -1
Index(s) ==
    IF Contains(s)
    THEN (CHOOSE k \in 1..Len(s) :
             s[k] = "/" /\ \A j \in 1..(k - 1) : s[j] # "/") - 1
    ELSE -1

\* s[:n] and s[n:] of Go, n 0-based
SliceTo(s, n) == SubSeq(s, 1, n)
SliceFrom(s, n) == SubSeq(s, n + 1, Len(s))

\* fmt.Sprintf("%s/%s", a, b)
SprintfPath(a, b) == a \o <<"/">> \o b

generateKeyName(bucket, fileName) ==
    IF Contains(bucket)
    THEN SprintfPath(SliceFrom(bucket, Index(bucket) + 1), fileName)
    ELSE fileName

\* the parentBucketName computed at the head of UploadFile
ParentBucketOf(bucket) ==
    IF Contains(bucket) THEN SliceTo(bucket, Index(bucket)) ELSE bucket

\* common.IsFileBigger, on the size os.Stat reported
IsFileBigger(sizeBytes) == sizeBytes >= Threshold

\* ------------------------------------------------------------ the history
Ev(kind, i, file, bucket, key, ok, size, part) ==
    [kind |-> kind, idx |-> i, file |-> file, bucket |-> bucket,
     key |-> key, ok |-> ok, size |-> size, part |-> part]

Step(evs, err, open) == [evs |-> evs, err |-> err, open |-> open]

Init ==
    /\ pc = "idle"
    /\ op = "none"
    /\ bucketName = <<>>
    /\ fileNames = <<>>
    /\ parentBucketName = <<>>
    /\ idx = 0
    /\ events = <<>>
    /\ openFiles = {}
    /\ result = "none"
    /\ listReqs = <<>>
    /\ listed = -2
    /\ env \in EnvInit
    /\ env0 = env
    /\ creds = [AccessKeyID |-> "", SecretAccessKey |-> ""]
    /\ cfg \in [Region : Regions]
    /\ retrieved = "none"
    /\ envCalls = <<>>

\* ------------------------------------------------------ CheckBucketAccess
\* the ListObjectsV2Input built from bucketName
ListInput(bucket) ==
    IF Contains(bucket)
    THEN [Bucket |-> SliceTo(bucket, Index(bucket)),
          Prefix |-> SliceFrom(bucket, Index(bucket) + 1),
          hasPrefix |-> TRUE]
    ELSE [Bucket |-> bucket, Prefix |-> <<>>, hasPrefix |-> FALSE]

\* what ListObjectsV2 answers: ListErr, or len(objects.Contents)
ListErr == -1
ListResults == {ListErr} \cup (0..MaxObjects)

\* CheckBucketAccess without the test of len(objects.Contents)
CheckResultNoEmptyTest(bucket, listRes) ==
    IF listRes = ListErr THEN "err" ELSE "ok"

\* CheckBucketAccess with the test of len(objects.Contents) made for
\* every bucket name
CheckResultAlwaysEmptyTest(bucket, listRes) ==
    IF listRes = ListErr THEN "err"
    ELSE IF listRes = 0 THEN "err"
    ELSE "ok"

\* the error CheckBucketAccess returns
CheckResult(bucket, listRes) ==
    IF listRes = ListErr THEN "err"
    ELSE IF Contains(bucket) /\ listRes = 0 THEN "err"
    ELSE "ok"

CheckBucketAccess ==
    /\ pc = "idle"
    /\ \E b \in BucketAddresses, listRes \in ListResults :
         /\ bucketName' = b
         /\ listReqs' = Append(listReqs, ListInput(b))
         /\ listed' = listRes
         /\ result' = CheckResult(b, listRes)
    /\ op' = "check"
    /\ pc' = "returned"
    /\ UNCHANGED <<fileNames, parentBucketName, idx, events, openFiles, env,
                   env0, creds, cfg, retrieved,
                   envCalls>>

\* ------------------------------------------------------------- UploadFile
StatErr == -1
StatResults == {StatErr} \cup Sizes

NoFile == <<>>

\* UploadLargeObject with Bucket: aws.String(bucketName)
UploadLargeObjectWholeAddress(i, fileName, loc, bucket, parent, openOk, upOk) ==
    LET filePath == SprintfPath(loc, fileName) IN
    IF ~openOk
    THEN Step(<<Ev("open", i, filePath, NoFile, NoFile, FALSE, 0, 0)>>,
              TRUE, {})
    ELSE Step(<<Ev("open", i, filePath, NoFile, NoFile, TRUE, 0, 0),
                Ev("multipart", i, filePath, bucket,
                   generateKeyName(bucket, fileName), upOk, 0, PartSize),
                Ev("close", i, filePath, NoFile, NoFile, TRUE, 0, 0)>>,
              ~upOk, {})

\* UploadLargeObject that logs the uploader's error and returns nil
UploadLargeObjectErrDropped(i, fileName, loc, bucket, parent, openOk, upOk) ==
    LET filePath == SprintfPath(loc, fileName) IN
    IF ~openOk
    THEN Step(<<Ev("open", i, filePath, NoFile, NoFile, FALSE, 0, 0)>>,
              TRUE, {})
    ELSE Step(<<Ev("open", i, filePath, NoFile, NoFile, TRUE, 0, 0),
                Ev("multipart", i, filePath, parent,
                   generateKeyName(bucket, fileName), upOk, 0, PartSize),
                Ev("close", i, filePath, NoFile, NoFile, TRUE, 0, 0)>>,
              FALSE, {})

\* UploadLargeObject: open, multipart upload, deferred Close
UploadLargeObject(i, fileName, loc, bucket, parent, openOk, upOk) ==
    LET filePath == SprintfPath(loc, fileName) IN
    IF ~openOk
    THEN Step(<<Ev("open", i, filePath, NoFile, NoFile, FALSE, 0, 0)>>,
              TRUE, {})
    ELSE Step(<<Ev("open", i, filePath, NoFile, NoFile, TRUE, 0, 0),
                Ev("multipart", i, filePath, parent,
                   generateKeyName(bucket, fileName), upOk, 0, PartSize),
                Ev("close", i, filePath, NoFile, NoFile, TRUE, 0, 0)>>,
              ~upOk, {})

\* the direct path with a file that cannot be opened skipped (continue)
PutSmallObjectSkipUnopened(i, fileName, loc, bucket, parent, openOk, upOk) ==
    LET filePath == SprintfPath(loc, fileName) IN
    IF ~openOk
    THEN Step(<<Ev("open", i, filePath, NoFile, NoFile, FALSE, 0, 0)>>,
              FALSE, {})
    ELSE IF ~upOk
    THEN Step(<<Ev("open", i, filePath, NoFile, NoFile, TRUE, 0, 0),
                Ev("put", i, filePath, parent,
                   generateKeyName(bucket, fileName), FALSE, 0, 0)>>,
              TRUE, {i})
    ELSE Step(<<Ev("open", i, filePath, NoFile, NoFile, TRUE, 0, 0),
                Ev("put", i, filePath, parent,
                   generateKeyName(bucket, fileName), TRUE, 0, 0),
                Ev("close", i, filePath, NoFile, NoFile, TRUE, 0, 0)>>,
              FALSE, {})

\* the direct path with a failed PutObject issued a second time
PutSmallObjectRetried(i, fileName, loc, bucket, parent, openOk, upOk) ==
    LET filePath == SprintfPath(loc, fileName) IN
    IF ~openOk
    THEN Step(<<Ev("open", i, filePath, NoFile, NoFile, FALSE, 0, 0)>>,
              TRUE, {})
    ELSE IF ~upOk
    THEN Step(<<Ev("open", i, filePath, NoFile, NoFile, TRUE, 0, 0),
                Ev("put", i, filePath, parent,
                   generateKeyName(bucket, fileName), FALSE, 0, 0),
                Ev("put", i, filePath, parent,
                   generateKeyName(bucket, fileName), FALSE, 0, 0)>>,
              TRUE, {i})
    ELSE Step(<<Ev("open", i, filePath, NoFile, NoFile, TRUE, 0, 0),
                Ev("put", i, filePath, parent,
                   generateKeyName(bucket, fileName), TRUE, 0, 0),
                Ev("close", i, filePath, NoFile, NoFile, TRUE, 0, 0)>>,
              FALSE, {})

\* the direct path of UploadFile: open, PutObject, Close
PutSmallObject(i, fileName, loc, bucket, parent, openOk, upOk) ==
    LET filePath == SprintfPath(loc, fileName) IN
    IF ~openOk
    THEN Step(<<Ev("open", i, filePath, NoFile, NoFile, FALSE, 0, 0)>>,
              TRUE, {})
    ELSE IF ~upOk
    THEN Step(<<Ev("open", i, filePath, NoFile, NoFile, TRUE, 0, 0),
                Ev("put", i, filePath, parent,
                   generateKeyName(bucket, fileName), FALSE, 0, 0)>>,
              TRUE, {i})
    ELSE Step(<<Ev("open", i, filePath, NoFile, NoFile, TRUE, 0, 0),
                Ev("put", i, filePath, parent,
                   generateKeyName(bucket, fileName), TRUE, 0, 0),
                Ev("close", i, filePath, NoFile, NoFile, TRUE, 0, 0)>>,
              FALSE, {})

\* UploadFile without the branch to UploadLargeObject
DispatchAlwaysDirect(i, fileName, loc, bucket, parent, size, openOk, upOk) ==
    PutSmallObject(i, fileName, loc, bucket, parent, openOk, upOk)

\* the choice between the two paths, on what IsFileBigger answered
Dispatch(i, fileName, loc, bucket, parent, size, openOk, upOk) ==
    IF IsFileBigger(size)
    THEN UploadLargeObject(i, fileName, loc, bucket, parent, openOk, upOk)
    ELSE PutSmallObject(i, fileName, loc, bucket, parent, openOk, upOk)

\* one pass of the loop body of UploadFile
UploadOneFile(i, fileName, loc, bucket, parent, statRes, openOk, upOk) ==
    LET filePath == SprintfPath(loc, fileName) IN
    IF statRes = StatErr
    THEN Step(<<Ev("stat", i, filePath, NoFile, NoFile, FALSE, 0, 0)>>,
              TRUE, {})
    ELSE LET r == Dispatch(i, fileName, loc, bucket, parent, statRes,
                           openOk, upOk)
         IN  Step(<<Ev("stat", i, filePath, NoFile, NoFile, TRUE, statRes, 0)>>
                      \o r.evs,
                  r.err, r.open)

\* the call: the statements before the loop
UploadFileCall ==
    /\ pc = "idle"
    /\ \E fs \in FileNameLists, b \in BucketAddresses :
         /\ fileNames' = fs
         /\ bucketName' = b
         /\ parentBucketName' = ParentBucketOf(b)
    /\ op' = "upload"
    /\ pc' = "loop"
    /\ idx' = 1
    /\ UNCHANGED <<events, openFiles, result, listReqs, listed, env, env0,
                   creds, cfg, retrieved, envCalls>>

\* one iteration of the loop; an error returns at once
UploadFileIter ==
    /\ pc = "loop"
    /\ idx <= Len(fileNames)
    /\ \E statRes \in StatResults, openOk \in BOOLEAN, upOk \in BOOLEAN :
         LET r == UploadOneFile(idx, fileNames[idx], location, bucketName,
                                parentBucketName, statRes, openOk, upOk)
         IN  /\ events' = events \o r.evs
             /\ openFiles' = openFiles \cup r.open
             /\ IF r.err
                THEN pc' = "returned" /\ result' = "err" /\ idx' = idx
                ELSE pc' = "loop" /\ result' = result /\ idx' = idx + 1
    /\ UNCHANGED <<op, bucketName, fileNames, parentBucketName, listReqs,
                   listed, env, env0, creds, cfg, retrieved,
                   envCalls>>

\* the loop is over: return nil
UploadFileReturn ==
    /\ pc = "loop"
    /\ idx > Len(fileNames)
    /\ pc' = "returned"
    /\ result' = "ok"
    /\ UNCHANGED <<op, bucketName, fileNames, parentBucketName, idx, events,
                   openFiles, listReqs, listed, env, env0, creds, cfg, retrieved,
                   envCalls>>

\* ------------------------------------ GenerateEnvVariablesFromCredentials
\* os.Setenv: a rejected write leaves the environment as it was
Setenv(e, key, value, rejected) ==
    IF rejected THEN e ELSE [e EXCEPT ![key] = value]

SetenvCall(key, value, rejected) ==
    [key |-> key, value |-> value, ok |-> ~rejected]

\* the three writes with the error of the last one not looked at
ExportEnvLastErrDropped(e, c, region, rej) ==
    LET c1 == SetenvCall("AWS_ACCESS_KEY_ID", c.AccessKeyID, 1 \in rej)
        e1 == Setenv(e, "AWS_ACCESS_KEY_ID", c.AccessKeyID, 1 \in rej)
        c2 == SetenvCall("AWS_SECRET_ACCESS_KEY", c.SecretAccessKey, 2 \in rej)
        e2 == Setenv(e1, "AWS_SECRET_ACCESS_KEY", c.SecretAccessKey, 2 \in rej)
        c3 == SetenvCall("AWS_REGION", region, 3 \in rej)
        e3 == Setenv(e2, "AWS_REGION", region, 3 \in rej)
    IN  IF 1 \in rej THEN [env |-> e1, calls |-> <<c1>>, err |-> TRUE]
        ELSE IF 2 \in rej THEN [env |-> e2, calls |-> <<c1, c2>>, err |-> TRUE]
        ELSE [env |-> e3, calls |-> <<c1, c2, c3>>, err |-> FALSE]

\* the three writes after a successful Retrieve; rej is the set of writes
\* (1, 2, 3) the environment store would reject
ExportEnv(e, c, region, rej) ==
    LET c1 == SetenvCall("AWS_ACCESS_KEY_ID", c.AccessKeyID, 1 \in rej)
        e1 == Setenv(e, "AWS_ACCESS_KEY_ID", c.AccessKeyID, 1 \in rej)
        c2 == SetenvCall("AWS_SECRET_ACCESS_KEY", c.SecretAccessKey, 2 \in rej)
        e2 == Setenv(e1, "AWS_SECRET_ACCESS_KEY", c.SecretAccessKey, 2 \in rej)
        c3 == SetenvCall("AWS_REGION", region, 3 \in rej)
        e3 == Setenv(e2, "AWS_REGION", region, 3 \in rej)
    IN  IF 1 \in rej THEN [env |-> e1, calls |-> <<c1>>, err |-> TRUE]
        ELSE IF 2 \in rej THEN [env |-> e2, calls |-> <<c1, c2>>, err |-> TRUE]
        ELSE IF 3 \in rej
        THEN [env |-> e3, calls |-> <<c1, c2, c3>>, err |-> TRUE]
        ELSE [env |-> e3, calls |-> <<c1, c2, c3>>, err |-> FALSE]

GenerateEnvVariablesFromCredentials ==
    /\ pc = "idle"
    /\ \E retrieveOk \in BOOLEAN, ak \in CredValues, sk \in CredValues,
          rej \in SUBSET (1..3) :
         IF ~retrieveOk
         THEN /\ retrieved' = "err"
              /\ result' = "err"
              /\ UNCHANGED <<creds, env, envCalls>>
         ELSE LET c == [AccessKeyID |-> ak, SecretAccessKey |-> sk]
                  r == ExportEnv(env, c, cfg.Region, rej)
              IN  /\ retrieved' = "ok"
                  /\ creds' = c
                  /\ env' = r.env
                  /\ envCalls' = envCalls \o r.calls
                  /\ result' = IF r.err THEN "err" ELSE "ok"
    /\ op' = "export"
    /\ pc' = "returned"
    /\ UNCHANGED <<bucketName, fileNames, parentBucketName, idx, events,
                   openFiles, listReqs, listed, env0, cfg>>

Next ==
    \/ CheckBucketAccess
    \/ UploadFileCall
    \/ UploadFileIter
    \/ UploadFileReturn
    \/ GenerateEnvVariablesFromCredentials

Spec == Init /\ [][Next]_vars

\* ================================================================ claims
\* What the specification expects of key resolution, computed by a scan of
\* the address from the left and not by Index and slicing.
RECURSIVE BeforeFirstSlash(_)
BeforeFirstSlash(s) ==
    IF s = <<>> \/ Head(s) = "/" THEN <<>>
    ELSE <<Head(s)>> \o BeforeFirstSlash(Tail(s))

RECURSIVE AfterFirstSlash(_)
AfterFirstSlash(s) ==
    IF s = <<>> THEN <<>>
    ELSE IF Head(s) = "/" THEN Tail(s)
    ELSE AfterFirstSlash(Tail(s))

HasSlash(s) == "/" \in {s[k] : k \in 1..Len(s)}

ExpectedBucket(A) == IF HasSlash(A) THEN BeforeFirstSlash(A) ELSE A
ExpectedKey(A, F) ==
    IF HasSlash(A) THEN AfterFirstSlash(A) \o <<"/">> \o F ELSE F

EventIndexes == 1..Len(events)
Uploads == {k \in EventIndexes : events[k].kind \in {"put", "multipart"}}
UploadsOf(i) == {k \in Uploads : events[k].idx = i}
Failures ==
    {k \in EventIndexes :
        events[k].kind \in {"stat", "open", "put", "multipart"}
        /\ ~events[k].ok}

\* C1: for every non-empty bucket address A and file name F, the physical
\* bucket is A when A has no "/" and the text before the first "/"
\* otherwise, and the object key is F when A has no "/" and the text after
\* the first "/", then "/", then F otherwise; "d/d/d" with "x" gives
\* ("d", "d/d/x").
C1_KeyResolution ==
    op = "upload" =>
        /\ parentBucketName = ExpectedBucket(bucketName)
        /\ \A F \in FileNameSet :
              generateKeyName(bucketName, F) = ExpectedKey(bucketName, F)
        /\ bucketName = <<"d", "/", "d", "/", "d">> =>
              /\ parentBucketName = <<"d">>
              /\ generateKeyName(bucketName, <<"x">>)
                    = <<"d", "/", "d", "/", "x">>

C1_Witness ==
    /\ op = "upload"
    /\ bucketName = <<"d", "/", "d", "/", "d">>
    /\ \E k \in Uploads :
          /\ events[k].ok
          /\ events[k].bucket = <<"d">>
          /\ events[k].key = <<"d", "/", "d", "/", "x">>

\* C2: the files are processed in the order of the slice, and once the
\* stat, open or upload of the file at position i has failed UploadFile has
\* returned an error and nothing is requested for a later position: the
\* only event after the failure is the deferred Close of the same file.
C2_FailFast ==
    /\ \A k, l \in EventIndexes :
          k <= l => events[k].idx <= events[l].idx
    /\ \A k \in EventIndexes :
          events[k].file = SprintfPath(location, fileNames[events[k].idx])
    /\ \A k \in Failures :
          /\ pc = "returned"
          /\ result = "err"
          /\ \A l \in EventIndexes :
                l > k => /\ events[l].kind = "close"
                         /\ events[l].idx = events[k].idx

C2_Witness ==
    /\ Len(fileNames) = 3
    /\ result = "err"
    /\ \E k \in Failures : events[k].kind = "open" /\ events[k].idx = 2
    /\ \E k \in Uploads : events[k].idx = 1 /\ events[k].ok

\* C3: when UploadFile has returned nil, every position of the slice has
\* an upload request that succeeded; when a stat, open or upload failed,
\* what it returned is an error.
C3_NoPartialSuccess ==
    (op = "upload" /\ pc = "returned") =>
        /\ result = "ok" =>
              \A i \in 1..Len(fileNames) :
                 \E k \in UploadsOf(i) : events[k].ok
        /\ Failures # {} => result = "err"

C3_Witness ==
    /\ op = "upload"
    /\ pc = "returned"
    /\ result = "ok"
    /\ Len(fileNames) = 3
    /\ \E k \in Uploads : events[k].kind = "multipart"
    /\ \E k \in Uploads : events[k].kind = "put"

\* C4: whenever UploadFile has returned, with nil or with an error, no file
\* it opened is still open.
C4_HandlesClosed ==
    (op = "upload" /\ pc = "returned") => openFiles = {}

\* C5: CheckBucketAccess on an address with a "/" lists the text before the
\* first "/" as bucket with the text after it as prefix, returns an error
\* when the listing succeeds with no object, and returns nil only when the
\* listing succeeds with at least one object.
C5_PrefixedAccess ==
    (op = "check" /\ HasSlash(bucketName)) =>
        /\ listReqs = <<[Bucket |-> BeforeFirstSlash(bucketName),
                         Prefix |-> AfterFirstSlash(bucketName),
                         hasPrefix |-> TRUE]>>
        /\ listed = 0 => result = "err"
        /\ result = "ok" <=> listed >= 1

C5_Witness ==
    /\ op = "check"
    /\ bucketName = <<"d", "/", "d">>
    /\ listed = 0
    /\ result = "err"

\* C6: CheckBucketAccess on an address without "/" lists that bucket with
\* no prefix and returns nil whenever the listing succeeds, also with no
\* object; on any address a failed listing makes it return an error.
C6_PlainAccess ==
    op = "check" =>
        /\ ~HasSlash(bucketName) =>
              /\ listReqs = <<[Bucket |-> bucketName, Prefix |-> <<>>,
                               hasPrefix |-> FALSE]>>
              /\ listed >= 0 => result = "ok"
        /\ listed = ListErr => result = "err"

C6_Witness ==
    /\ op = "check"
    /\ bucketName = <<"d">>
    /\ listed = 0
    /\ result = "ok"

\* the size os.Stat reported for position i, when it reported one
StatOf(i) == {k \in EventIndexes : events[k].kind = "stat" /\ events[k].idx = i
                                   /\ events[k].ok}
OpenedOk(i) == \E k \in EventIndexes :
                  events[k].kind = "open" /\ events[k].idx = i /\ events[k].ok

C8_UploadTarget ==
    \A k \in Uploads :
        /\ events[k].bucket = ExpectedBucket(bucketName)
        /\ events[k].key = ExpectedKey(bucketName, fileNames[events[k].idx])

C8_Witness ==
    /\ bucketName = <<"d", "/", "d", "/", "d">>
    /\ fileNames = <<<<"x">>, <<"y">>>>
    /\ pc = "returned"
    /\ result = "ok"
    /\ \E k \in Uploads :
          /\ events[k].kind = "put" /\ events[k].bucket = <<"d">>
          /\ events[k].key = <<"d", "/", "d", "/", "x">>
    /\ \E k \in Uploads :
          /\ events[k].kind = "multipart" /\ events[k].bucket = <<"d">>
          /\ events[k].key = <<"d", "/", "d", "/", "y">>

\* C9: one call of UploadFile issues at most one upload request for each
\* position of the slice, a failed one included, and one call of
\* CheckBucketAccess issues exactly one listing request.
C9_NoRetry ==
    /\ \A i \in 1..Len(fileNames) : Cardinality(UploadsOf(i)) <= 1
    /\ Cardinality(Uploads) <= Len(fileNames)
    /\ op = "check" => Len(listReqs) = 1
    /\ op # "check" => Len(listReqs) = 0

C9_Witness ==
    /\ op = "upload"
    /\ result = "err"
    /\ \E k \in Uploads : events[k].kind = "put" /\ ~events[k].ok

\* C10: GenerateEnvVariablesFromCredentials returns nil only with the three
\* environment values set to the retrieved access key, the retrieved secret
\* key and the region of the configuration; when Retrieve fails it returns
\* an error with the environment as it was; when a write is rejected it
\* returns an error.
C10_ExportCredentials ==
    op = "export" =>
        /\ result = "ok" =>
              /\ retrieved = "ok"
              /\ env = [k \in EnvKeys |->
                          IF k = "AWS_ACCESS_KEY_ID" THEN creds.AccessKeyID
                          ELSE IF k = "AWS_SECRET_ACCESS_KEY"
                          THEN creds.SecretAccessKey
                          ELSE cfg.Region]
        /\ retrieved = "err" => (result = "err" /\ env = env0)
        /\ (\E k \in 1..Len(envCalls) : ~envCalls[k].ok) => result = "err"

C10_Witness ==
    /\ op = "export"
    /\ result = "ok"
    /\ env0["AWS_REGION"] = "old"
    /\ env["AWS_ACCESS_KEY_ID"] = "k1"
    /\ env["AWS_SECRET_ACCESS_KEY"] = "k2"
    /\ env["AWS_REGION"] = "r1"
====
